---- MODULE Spec2Model ----
(***************************************************************************)
(* A model of the python_parser hierarchy builder: the VisitorManager      *)
(* registry, the identity scheme, the block builders and the visitor       *)
(* driven traversal (PythonParser -> ModuleVisitor -> ClassDefVisitor /    *)
(* FunctionDefVisitor).                                                    *)
(*                                                                         *)
(* Python strings are TLA+ strings (TLC evaluates \o, Len and SubSeq on    *)
(* them), Python lists are sequences, Python sets are sets, a dict is a    *)
(* function whose DOMAIN is the set of keys present, and None is the       *)
(* model value None.  An object is a record of its fields; objects that    *)
(* the code shares by reference live in an arena (a sequence) and are      *)
(* named by their index.                                                   *)
(***************************************************************************)
EXTENDS Naturals, Sequences, FiniteSets, TLC

VARIABLES
    managers,   \* every VisitorManager object constructed so far (arena)
    instance,   \* VisitorManager._instance: 0 is None, else an index of managers
    vmResult,   \* outcome of the last direct VisitorManager operation
    asked,      \* history: the (manager, module_id, node_id) triples asked so far
    src,        \* the body of the module in the files (the parsed tree)
    parsers,    \* every PythonParser object constructed so far (arena)
    done,       \* history: one record per completed PythonParser.parse()
    fn,         \* outcome of the last process_function call
    bld,        \* outcome of the last builder construction / build()
    malformed,  \* the file paths whose text libcst.parse_module rejects
    failed,     \* history: one record per PythonParser.parse() that raised
    cm,         \* outcome of the last process_comment call
    extr,       \* outcome of the last call of an extraction function
    ht          \* the stack-based traversal of hierarchy_test.py

vars == <<managers, instance, vmResult, asked, src, parsers, done, fn, bld,
          malformed, failed, cm, extr, ht>>

None == "None"

\* Python's `sub in s` on strings.
Contains(s, sub) ==
    \E i \in 1..(Len(s) + 1 - Len(sub)) : SubSeq(s, i, i + Len(sub) - 1) = sub

-----------------------------------------------------------------------------
(* Bounds of the model.                                                    *)

MaxManagers == 2    \* VisitorManager objects constructed in one process
MaxNodes == 3       \* class/function definitions in one module
MaxParsers == 2     \* PythonParser objects constructed in one process
MaxParses == 2      \* parse() calls in one process
MaxDepth == 2       \* ancestors of a function handed to process_function

-----------------------------------------------------------------------------
(* models/enums.py: BlockType.  str(BlockType.X) is the value.             *)

BlockType_CLASS == "CLASS"
BlockType_FUNCTION == "FUNCTION"
BlockType_MODULE == "MODULE"
BlockType_STANDALONE_CODE_BLOCK == "STANDALONE_BLOCK"

-----------------------------------------------------------------------------
(* id_generation/id_generation_strategies.py                               *)

ModuleIDGenerationStrategy(file_path) == file_path \o "__>__MODULE"

\* A class id without the kind tag.
UntaggedClassID(parent_id, class_name) == parent_id \o "__>__" \o class_name

ClassIDGenerationStrategy(parent_id, class_name) ==
    parent_id \o "__>__CLASS_" \o class_name

FunctionIDGenerationStrategy(parent_id, function_name) ==
    parent_id \o "__>__FUNCTION_" \o function_name

\* VisitorManager.get_node_id / common_functions.get_node_id: dispatch on the
\* block type; the context carries file_path, or parent_id and the name.
get_node_id(node_type, parent_or_path, name) ==
    CASE node_type = BlockType_MODULE -> ModuleIDGenerationStrategy(parent_or_path)
      [] node_type = BlockType_CLASS -> ClassIDGenerationStrategy(parent_or_path, name)
      [] node_type = BlockType_FUNCTION -> FunctionIDGenerationStrategy(parent_or_path, name)

-----------------------------------------------------------------------------
(* visitors/visitor_manager.py: VisitorManager                             *)

\* self.processed_nodes = {}
EmptyRegistry == [k \in {} |-> {}]

NewManager == [processed_nodes |-> EmptyRegistry]

\* VisitorManager.get_instance() (lines 28-38): constructs the manager and
\* stores it in _instance on first use, returns _instance.
GetInstanceStep(mgrs, inst) ==
    IF inst = 0
    THEN [managers |-> Append(mgrs, NewManager), instance |-> Len(mgrs) + 1]
    ELSE [managers |-> mgrs, instance |-> inst]

\* No operation of the kind has run yet.
NoVmResult == [op |-> "none"]

NoResult == [op |-> "none"]

\* A registry that keeps the nodes of the asked module only.
EnsureScopeOnly(processed_nodes, module_id) ==
    [k \in {module_id} |->
        IF k \in DOMAIN processed_nodes THEN processed_nodes[k] ELSE {}]

\* has_been_processed, lines 56-57: create the module's set on first use.
EnsureScope(processed_nodes, module_id) ==
    IF module_id \in DOMAIN processed_nodes
    THEN processed_nodes
    ELSE [k \in DOMAIN processed_nodes \cup {module_id} |->
            IF k = module_id THEN {} ELSE processed_nodes[k]]

\* The text of an id after its last "__>__" separator.
ShortName(id) ==
    LET seps == { i \in 1..Len(id) : i + 4 <= Len(id) /\ SubSeq(id, i, i + 4) = "__>__" }
        last == CHOOSE i \in seps : \A j \in seps : j <= i
    IN  IF seps = {} THEN id ELSE SubSeq(id, last + 5, Len(id))

\* A registry that is not scoped by module and compares short block names.
HasBeenProcessedByShortName(processed_nodes, module_id, node_id) ==
    \E k \in DOMAIN processed_nodes :
        \E x \in processed_nodes[k] : ShortName(x) = ShortName(node_id)

\* has_been_processed, lines 59-63: the value returned.
HasBeenProcessedResult(processed_nodes, module_id, node_id) ==
    node_id \in EnsureScope(processed_nodes, module_id)[module_id]

\* A registry that answers but forgets to record the node.
HasBeenProcessedNoRecord(processed_nodes, module_id, node_id) ==
    EnsureScope(processed_nodes, module_id)

\* has_been_processed, lines 56-63: the registry after the call.
HasBeenProcessedUpdate(processed_nodes, module_id, node_id) ==
    LET reg == EnsureScope(processed_nodes, module_id)
    IN  [reg EXCEPT ![module_id] = @ \cup {node_id}]

-----------------------------------------------------------------------------
(* The source: the class and function definitions of one module, numbered  *)
(* in source (preorder) order.  Node 0 is the Module node; src[i].parent   *)
(* is the definition (or 0) in whose body definition i directly stands.    *)

Kinds == {BlockType_CLASS, BlockType_FUNCTION}

\* The kind of a node that is a comment (libcst.Comment); its text is kept
\* in the name field.
COMMENT == "COMMENT"

Names == {"A", "m"}

Files == {"a.py", "b.py"}

RECURSIVE AncestorsOf(_, _)
AncestorsOf(t, i) ==
    IF i = 0 THEN {} ELSE {t[i].parent} \cup AncestorsOf(t, t[i].parent)

IsPreorder(t) ==
    \A i \in 1..Len(t) :
        /\ t[i].parent < i
        /\ i > 1 => t[i].parent \in {i - 1} \cup AncestorsOf(t, i - 1)

Trees ==
    UNION { { t \in [1..n -> [kind : Kinds, name : Names, parent : 0..MaxNodes]] :
                IsPreorder(t) } : n \in 0..MaxNodes }

NodeKind(n) == IF n = 0 THEN BlockType_MODULE ELSE src[n].kind

\* node.body / node.body.body restricted to the definitions, in source order.
Body(n) ==
    SelectSeq([i \in 1..Len(src) |-> i], LAMBDA i : src[i].parent = n)

-----------------------------------------------------------------------------
(* models/models.py and model_builders/*.py                                *)

\* Declaration order of the fields of BaseCodeBlockModel (models.py:68-83).
BaseFieldOrder ==
    <<"id", "parent_id", "block_type", "block_start_line_number",
      "block_end_line_number", "code_content", "important_comments",
      "dependencies", "summary", "children">>

\* The fields a validator of `field` finds in `values`: those declared, and
\* so validated, before it.
ValidatedBefore(field) ==
    { BaseFieldOrder[i] : i \in { j \in 1..Len(BaseFieldOrder) :
          \E k \in 1..Len(BaseFieldOrder) : BaseFieldOrder[k] = field /\ j < k } }

\* BaseCodeBlockModel.check_parent_id (models.py:85-92): "ok", or the error.
check_parent_id(v, values, block_type) ==
    IF "block_type" \in values /\ block_type # BlockType_MODULE
    THEN IF v = None THEN "TypeError"
         ELSE IF Len(v) < 1 THEN "ValueError" ELSE "ok"
    ELSE "ok"

\* A string field without a length constraint.
NoMinLength(v) == "ok"

\* Field(min_length=1) on file_path / class_name / function_name.
MinLength1(v) == IF Len(v) < 1 THEN "ValidationError" ELSE "ok"

\* BaseCodeBlockModel(...): the validation outcome of the common attributes.
ValidateCommon(parent_id, block_type) ==
    check_parent_id(parent_id, ValidatedBefore("parent_id"), block_type)

\* BaseModelBuilder.__init__ (base_model_builder.py:77-95).  A list field
\* that is None or empty is the empty sequence: the code tests such fields
\* with `not`, which does not tell the two apart.
BaseCodeBlockAttributes(block_id, parent_id, block_type) ==
    [id |-> block_id, parent_id |-> parent_id, block_type |-> block_type,
     block_start_line_number |-> 1, block_end_line_number |-> 0,
     important_comments |-> <<>>, children |-> <<>>]

\* A module builder that passes its own id on as parent id.
ModuleModelBuilderSelfParent(file_path, module_id) ==
    [common_attributes |->
        BaseCodeBlockAttributes(module_id, module_id, BlockType_MODULE),
     module_attributes |-> [file_path |-> file_path]]

\* ModuleModelBuilder.__init__ (module_model_builder.py:19-31).
ModuleModelBuilder(file_path, module_id) ==
    [common_attributes |->
        BaseCodeBlockAttributes(module_id, None, BlockType_MODULE),
     module_attributes |-> [file_path |-> file_path]]

\* ClassModelBuilder.__init__ (class_model_builder.py:26-41).
ClassModelBuilder(parent_id, class_name, class_id) ==
    [common_attributes |->
        BaseCodeBlockAttributes(class_id, parent_id, BlockType_CLASS),
     class_attributes |-> [class_name |-> class_name]]

\* FunctionModelBuilder.__init__ (function_model_builder.py:58-73).
FunctionModelBuilder(parent_id, function_name, function_id) ==
    [common_attributes |->
        BaseCodeBlockAttributes(function_id, parent_id, BlockType_FUNCTION),
     function_attributes |-> [function_name |-> function_name,
                              is_method |-> FALSE]]

\* BaseModelBuilder.add_child (base_model_builder.py:136-150).
add_child(builder, child) ==
    [builder EXCEPT !.common_attributes.children = Append(@, child)]

\* BaseModelBuilder.set_block_start_line_number and
\* set_block_end_line_number (base_model_builder.py:97-121).
set_block_start_line_number(builder, line_number) ==
    [builder EXCEPT !.common_attributes.block_start_line_number = line_number]

set_block_end_line_number(builder, line_number) ==
    [builder EXCEPT !.common_attributes.block_end_line_number = line_number]

\* BaseModelBuilder.add_important_comment (base_model_builder.py:152-165).
add_important_comment(builder, comment) ==
    [builder EXCEPT !.common_attributes.important_comments = Append(@, comment)]

\* FunctionModelBuilder.set_is_method (function_model_builder.py:126-134).
set_is_method(builder, is_method) ==
    IF ~builder.function_attributes.is_method
    THEN [builder EXCEPT !.function_attributes.is_method = is_method]
    ELSE builder

\* The model-specific required name of a builder.
BuilderName(builder) ==
    CASE builder.common_attributes.block_type = BlockType_MODULE ->
            builder.module_attributes.file_path
      [] builder.common_attributes.block_type = BlockType_CLASS ->
            builder.class_attributes.class_name
      [] builder.common_attributes.block_type = BlockType_FUNCTION ->
            builder.function_attributes.function_name

\* The validation that constructing the model from the builder's
\* attributes runs: "ok" or the error raised.
BuildOutcome(builder) ==
    LET c == builder.common_attributes
        pid == ValidateCommon(c.parent_id, c.block_type)
    IN  IF pid # "ok" THEN pid ELSE MinLength1(BuilderName(builder))

\* _create_model_instance: the common attributes and the specific ones
\* flattened into one model.
CreateModelInstance(builder) ==
    LET c == builder.common_attributes
    IN  CASE c.block_type = BlockType_MODULE ->
               [id |-> c.id, parent_id |-> c.parent_id,
                block_type |-> c.block_type,
                block_start_line_number |-> c.block_start_line_number,
                block_end_line_number |-> c.block_end_line_number,
                important_comments |-> c.important_comments,
                children |-> c.children,
                file_path |-> builder.module_attributes.file_path]
          [] c.block_type = BlockType_CLASS ->
               [id |-> c.id, parent_id |-> c.parent_id,
                block_type |-> c.block_type,
                block_start_line_number |-> c.block_start_line_number,
                block_end_line_number |-> c.block_end_line_number,
                important_comments |-> c.important_comments,
                children |-> c.children,
                class_name |-> builder.class_attributes.class_name]
          [] c.block_type = BlockType_FUNCTION ->
               [id |-> c.id, parent_id |-> c.parent_id,
                block_type |-> c.block_type,
                block_start_line_number |-> c.block_start_line_number,
                block_end_line_number |-> c.block_end_line_number,
                important_comments |-> c.important_comments,
                children |-> c.children,
                function_name |-> builder.function_attributes.function_name,
                is_method |-> builder.function_attributes.is_method]

-----------------------------------------------------------------------------
(* models/enums.py: CommentType; utilities/comment_extractor.py;           *)
(* BaseCodeBlockVisitor.process_comment                                    *)

\* The members of CommentType, by value, in definition order.
CommentType ==
    <<"TODO", "FIXME", "NOTE", "HACK", "XXX", "REVIEW", "OPTIMIZE", "CHANGED",
      "QUESTION", "Q", "@deprecated", "NOSONAR", "TODO-FIXME">>

\* libcst nodes handed to the extractor: a Comment with its text, an
\* EmptyLine with its comment text or None, or a node of another type.
Comment(value) == [type |-> "Comment", value |-> value]

EmptyLine(comment) == [type |-> "EmptyLine", comment |-> comment]

\* The members of CommentType whose value occurs in the text, as indices.
MatchingTypes(comment_text) ==
    { k \in 1..Len(CommentType) : Contains(comment_text, CommentType[k]) }

\* The comment text the extractor reads off the node, <<>> when there is
\* none (comment_extractor.py:13-20).
CommentTextOf(node) ==
    IF node.type = "EmptyLine" /\ node.comment # None THEN <<node.comment>>
    ELSE IF node.type = "Comment" THEN <<node.value>>
    ELSE <<>>

\* An extractor that takes the last member of CommentType that matches.
get_important_comment_last_match(node) ==
    LET text == CommentTextOf(node)
    IN  IF text = <<>> \/ MatchingTypes(text[1]) = {} THEN <<>>
        ELSE LET k == CHOOSE x \in MatchingTypes(text[1]) :
                          \A y \in MatchingTypes(text[1]) : y <= x
             IN  <<[content |-> text[1], comment_type |-> CommentType[k]]>>

\* CommentExtractor.get_important_comment (comment_extractor.py:9-29): the
\* CommentModel of the first member of CommentType whose value occurs in
\* the text; <<>> stands for None.
get_important_comment(node) ==
    LET text == CommentTextOf(node)
    IN  IF text = <<>> \/ MatchingTypes(text[1]) = {} THEN <<>>
        ELSE LET k == CHOOSE x \in MatchingTypes(text[1]) :
                          \A y \in MatchingTypes(text[1]) : x <= y
             IN  <<[content |-> text[1], comment_type |-> CommentType[k]]>>

\* BaseCodeBlockVisitor.process_comment (base_code_block_visitor.py:75-87):
\* the builder afterwards.
process_comment(node, model_builder) ==
    LET important_comment == get_important_comment(node)
    IN  IF important_comment # <<>>
        THEN add_important_comment(model_builder, important_comment[1])
        ELSE model_builder

-----------------------------------------------------------------------------
(* Position metadata.  The text is laid out with one line per node of the  *)
(* tree, in source order: the header of definition i is line i and the     *)
(* definition ends on the line of its last descendant.                     *)

RECURSIVE LastLine(_)
LastLine(n) ==
    IF Body(n) = <<>> THEN n ELSE LastLine(Body(n)[Len(Body(n))])

\* position_metadata[item] of the definition node n.
CodeRange(n) == [start |-> n, end |-> LastLine(n)]

\* The definition nodes in the order the keys of position_metadata are
\* iterated: a node is entered when its code has been generated, that is
\* after its descendants.
RECURSIVE PositionMetadataBelow(_)
PositionMetadataBelow(n) ==
    LET RECURSIVE Each(_)
        Each(cs) == IF cs = <<>> THEN <<>>
                    ELSE PositionMetadataBelow(Head(cs)) \o Each(Tail(cs))
    IN  Each(Body(n)) \o (IF n = 0 THEN <<>> ELSE <<n>>)

position_metadata == PositionMetadataBelow(0)

\* The items of the metadata of the given type and name, in iteration order.
ItemsNamed(kind, node_name) ==
    SelectSeq(position_metadata,
              LAMBDA i : src[i].kind = kind /\ src[i].name = node_name)

\* ClassDefVisitor.get_class_position_data (class_def_visitor.py:187-208):
\* the loop runs to the end, the last matching item stays.
get_class_position_data(node_name) ==
    LET items == ItemsNamed(BlockType_CLASS, node_name)
    IN  CodeRange(items[Len(items)])

\* FunctionDefVisitor.get_function_position_data
\* (function_def_visitor.py:259-281): the loop breaks at the first match.
get_function_position_data(node_name) ==
    CodeRange(ItemsNamed(BlockType_FUNCTION, node_name)[1])

-----------------------------------------------------------------------------
(* visitors/base_code_block_visitor.py, module_visitor.py,                 *)
(* class_def_visitor.py, function_def_visitor.py                           *)
(*                                                                         *)
(* A traversal threads one record st through the callbacks:                *)
(*   st.reg  the processed_nodes dict of the VisitorManager instance,      *)
(*   st.vis  the visitor objects alive in this traversal (index 1 is the   *)
(*           ModuleVisitor; parent_visitor_instance is an index, 0 None),  *)
(*   st.own  for each visitor, the node whose visit(visitor) it was        *)
(*           constructed for,                                              *)
(*   st.log  the calls made, in order.                                     *)

\* BaseCodeBlockVisitor.__init__ (base_code_block_visitor.py:47-73).
BaseCodeBlockVisitor(kind, model_builder, file_path, model_id, parent_visitor_instance) ==
    [kind |-> kind, file_path |-> file_path, model_builder |-> model_builder,
     model_id |-> model_id,
     parent_visitor_instance |-> parent_visitor_instance,
     children |-> <<>>, children_ids_set |-> {}]

\* ModuleVisitor.__init__ (module_visitor.py:28-41).
ModuleVisitor(file_path, model_id) ==
    BaseCodeBlockVisitor(BlockType_MODULE,
                         ModuleModelBuilder(file_path, model_id),
                         file_path, model_id, 0)

\* ClassDefVisitor.__init__ (class_def_visitor.py:47-70); the file path is
\* the parent visitor's.
ClassDefVisitor(parent_id, parent_visitor_instance, class_name, class_id, file_path) ==
    BaseCodeBlockVisitor(BlockType_CLASS,
                         ClassModelBuilder(parent_id, class_name, class_id),
                         file_path, class_id, parent_visitor_instance)

\* FunctionDefVisitor.__init__ (function_def_visitor.py:28-53).
FunctionDefVisitor(parent_id, parent_visitor_instance, function_name, function_id, file_path) ==
    BaseCodeBlockVisitor(BlockType_FUNCTION,
                         FunctionModelBuilder(parent_id, function_name,
                                              function_id),
                         file_path, function_id, parent_visitor_instance)

\* self.visitor_manager.has_been_processed(file_path, node_id) inside a
\* traversal: the answer, and st with the registry updated and the call
\* logged.
Hbp(st, file_path, node_id) ==
    LET ret == HasBeenProcessedResult(st.reg, file_path, node_id)
    IN  [ret |-> ret,
         st |-> [st EXCEPT
                   !.reg = HasBeenProcessedUpdate(@, file_path, node_id),
                   !.log = Append(@, [ev |-> "has_been_processed",
                                      id |-> node_id, ret |-> ret])]]

\* A visitor that never finds its model among its parent's children.
never_added_to_parent_visitor(st, v, child_id) == TRUE

\* BaseCodeBlockVisitor.not_added_to_parent_visitor (lines 89-93).
not_added_to_parent_visitor(st, v, child_id) ==
    child_id \notin
        st.vis[st.vis[v].parent_visitor_instance].children_ids_set

\* BaseCodeBlockVisitor.add_child_to_parent_visitor (lines 95-102).
add_child_to_parent_visitor(st, v, child_model) ==
    LET p == st.vis[v].parent_visitor_instance
    IN  [st EXCEPT
           !.vis[p].children = Append(@, child_model),
           !.vis[p].children_ids_set =
               IF child_model.id # "" THEN @ \cup {child_model.id} ELSE @,
           !.log = Append(@, [ev |-> "add_child_to_parent_visitor",
                              id |-> child_model.id,
                              parent |-> st.vis[p].model_id])]

\* for child in self.children: self.model_builder.add_child(child)
RECURSIVE AddChildren(_, _)
AddChildren(builder, children) ==
    IF children = <<>> THEN builder
    ELSE AddChildren(add_child(builder, Head(children)), Tail(children))

\* The kinds of body statement a visitor's visit_* loop dispatches on:
\* visit_Module and visit_ClassDef test for ClassDef and FunctionDef,
\* visit_FunctionDef for FunctionDef only.
DispatchedKinds(visitor_kind) ==
    IF visitor_kind = BlockType_FUNCTION
    THEN {BlockType_FUNCTION}
    ELSE {BlockType_CLASS, BlockType_FUNCTION}

\* The visitor constructed for body statement c by visitor v.
ChildVisitor(st, c, v, child_id) ==
    IF src[c].kind = BlockType_CLASS
    THEN ClassDefVisitor(st.vis[v].model_id, v, src[c].name, child_id,
                         st.vis[v].file_path)
    ELSE FunctionDefVisitor(st.vis[v].model_id, v, src[c].name, child_id,
                            st.vis[v].file_path)

RECURSIVE VisitNode(_, _, _)
RECURSIVE WalkChildren(_, _, _)
RECURSIVE DispatchBody(_, _, _)

\* The calls of a traversal run one after the other: the state a call
\* leaves is computed in full before the next call starts.  Evaluated means
\* the state st has been computed; it is always TRUE.
Evaluated(st) == Len(st.vis) >= 1

\* One turn of the loop `for child in node.body` of visit_Module
\* (module_visitor.py:62-99), visit_ClassDef (class_def_visitor.py:80-119)
\* and visit_FunctionDef (function_def_visitor.py:65-84): the child's id is
\* derived from this visitor's model_id; unless the manager reports it
\* processed, a child visitor is constructed and child.visit(it) runs.
DispatchChild(st, c, v) ==
    IF src[c].kind \notin DispatchedKinds(st.vis[v].kind) THEN st
    ELSE LET child_id == get_node_id(src[c].kind, st.vis[v].model_id,
                                     src[c].name)
             h == Hbp(st, st.vis[v].file_path, child_id)
             nv == Len(h.st.vis) + 1
         IN  IF h.ret THEN h.st
             ELSE VisitNode([h.st EXCEPT
                               !.vis = Append(@, ChildVisitor(h.st, c, v,
                                                              child_id)),
                               !.own = Append(@, c)],
                            c, nv)

\* The turns of the loop for the children cs that remain, from the state st
\* the turn before left.
DispatchRest(st, cs, v) ==
    IF Evaluated(st) THEN DispatchBody(st, cs, v) ELSE st

DispatchBody(st, cs, v) ==
    IF cs = <<>> THEN st
    ELSE DispatchRest(DispatchChild(st, Head(cs), v), Tail(cs), v)

\* ModuleVisitor.visit_Module (module_visitor.py:43-99).
visit_Module(st, n, v) ==
    LET h == Hbp(st, st.vis[v].file_path, st.vis[v].model_id)
    IN  IF h.ret THEN h.st ELSE DispatchBody(h.st, Body(n), v)

\* ClassDefVisitor.visit_ClassDef (class_def_visitor.py:72-151): the guard
\* id is derived from the visitor's own model_id and the visited node's name.
visit_ClassDef(st, n, v) ==
    LET class_node_id == get_node_id(BlockType_CLASS, st.vis[v].model_id,
                                     src[n].name)
        h == Hbp(st, st.vis[v].file_path, class_node_id)
    IN  IF h.ret THEN h.st
        ELSE LET st1 == DispatchBody(h.st, Body(n), v)
                 class_name == st1.vis[v].model_builder.class_attributes.class_name
                 position_data == get_class_position_data(class_name)
             IN  [st1 EXCEPT !.vis[v].model_builder =
                     set_block_end_line_number(
                         set_block_start_line_number(@, position_data.start),
                         position_data.end)]

\* FunctionDefVisitor.visit_FunctionDef (function_def_visitor.py:55-111).
visit_FunctionDef(st, n, v) ==
    LET function_node_id == get_node_id(BlockType_FUNCTION,
                                        st.vis[v].model_id, src[n].name)
        h == Hbp(st, st.vis[v].file_path, function_node_id)
    IN  IF h.ret THEN h.st
        ELSE LET st1 == DispatchBody(h.st, Body(n), v)
                 function_name ==
                     st1.vis[v].model_builder.function_attributes.function_name
                 position_data == get_function_position_data(function_name)
             IN  [st1 EXCEPT !.vis[v].model_builder =
                     set_block_end_line_number(
                         set_block_start_line_number(@, position_data.start),
                         position_data.end)]

\* ModuleVisitor.leave_Module (module_visitor.py:110-112).
leave_Module(st, n, v) ==
    [st EXCEPT !.vis[v].model_builder = AddChildren(@, st.vis[v].children)]

\* ClassDefVisitor.leave_ClassDef (class_def_visitor.py:156-161) and
\* FunctionDefVisitor.leave_FunctionDef (function_def_visitor.py:150-155).
leave_Def(st, n, v) ==
    LET builder == AddChildren(st.vis[v].model_builder, st.vis[v].children)
        st1 == [st EXCEPT !.vis[v].model_builder = builder]
    IN  IF not_added_to_parent_visitor(st1, v, st1.vis[v].model_id)
        THEN LET built_model == CreateModelInstance(builder)
                 st2 == [st1 EXCEPT !.log =
                            Append(@, [ev |-> "build", id |-> built_model.id,
                                       at |-> n, own |-> st.own[v]])]
             IN  add_child_to_parent_visitor(st2, v, built_model)
        ELSE st1

leave_ClassDef(st, n, v) == leave_Def(st, n, v)

leave_FunctionDef(st, n, v) == leave_Def(st, n, v)

\* visit_Comment of ModuleVisitor (module_visitor.py:107-108),
\* ClassDefVisitor (class_def_visitor.py:153-154) and FunctionDefVisitor
\* (function_def_visitor.py:147-148); the text of comment node n is
\* src[n].name.
visit_Comment(st, n, v) ==
    [st EXCEPT !.vis[v].model_builder = process_comment(Comment(src[n].name), @)]

\* CSTVisitor.on_visit: the visitor's visit_<NodeType> method, if its class
\* defines one.  ModuleVisitor defines visit_Module, ClassDefVisitor
\* visit_ClassDef, FunctionDefVisitor visit_FunctionDef, and each of them
\* visit_Comment.
OnVisit(st, n, v) ==
    LET vk == st.vis[v].kind
        nk == NodeKind(n)
    IN  CASE nk = COMMENT -> visit_Comment(st, n, v)
          [] vk = BlockType_MODULE /\ nk = BlockType_MODULE ->
               visit_Module(st, n, v)
          [] vk = BlockType_CLASS /\ nk = BlockType_CLASS ->
               visit_ClassDef(st, n, v)
          [] vk = BlockType_FUNCTION /\ nk = BlockType_FUNCTION ->
               visit_FunctionDef(st, n, v)
          [] OTHER -> st

\* CSTVisitor.on_leave: the visitor's leave_<NodeType> method, if any.
OnLeave(st, n, v) ==
    LET vk == st.vis[v].kind
        nk == NodeKind(n)
    IN  CASE vk = BlockType_MODULE /\ nk = BlockType_MODULE ->
               leave_Module(st, n, v)
          [] vk = BlockType_CLASS /\ nk = BlockType_CLASS ->
               leave_ClassDef(st, n, v)
          [] vk = BlockType_FUNCTION /\ nk = BlockType_FUNCTION ->
               leave_FunctionDef(st, n, v)
          [] OTHER -> st

\* node.visit(visitor): on_visit, then every child node with the same
\* visitor (no visit_* method returns False), then on_leave.
\* on_leave, from the state st the visit of the children left.
ThenLeave(st, n, v) ==
    IF Evaluated(st) THEN OnLeave(st, n, v) ELSE st

\* The visit of the children and on_leave, from the state st on_visit left.
ThenWalk(st, n, v) ==
    IF Evaluated(st) THEN ThenLeave(WalkChildren(st, Body(n), v), n, v) ELSE st

VisitNode(st, n, v) == ThenWalk(OnVisit(st, n, v), n, v)

\* The visit of the children cs that remain, from the state st the child
\* before left.
WalkRest(st, cs, v) ==
    IF Evaluated(st) THEN WalkChildren(st, cs, v) ELSE st

WalkChildren(st, cs, v) ==
    IF cs = <<>> THEN st
    ELSE WalkRest(VisitNode(st, Head(cs), v), Tail(cs), v)

-----------------------------------------------------------------------------
(* parsers/python_parser.py: PythonParser                                  *)

\* PythonParser.__init__ (python_parser.py:26-41), given the manager that
\* VisitorManager.get_instance() returned.
PythonParser(file_path, visitor_manager) ==
    LET module_id == get_node_id(BlockType_MODULE, file_path, "")
    IN  [file_path |-> file_path, visitor_manager |-> visitor_manager,
         module_id |-> module_id,
         module_visitor |-> ModuleVisitor(file_path, module_id)]

\* A parse_module that accepts every text.
parse_module_lenient(file_path) == "ok"

\* libcst.parse_module(content) (python_parser.py:54): "ok", or the error
\* raised for a text that is not a Python module.
parse_module(file_path) ==
    IF file_path \in malformed THEN "ParserSyntaxError" ELSE "ok"

\* PythonParser.parse (python_parser.py:43-65) on a source that parses:
\* wrapped_tree.visit(self.module_visitor), then model_builder.build().
\* Yields the registry and the module visitor after the call, the model
\* returned and the log of the traversal.
ParseResult(parser, reg) ==
    LET st == VisitNode([reg |-> reg, vis |-> <<parser.module_visitor>>,
                         own |-> <<0>>, log |-> <<>>], 0, 1)
    IN  [reg |-> st.reg, module_visitor |-> st.vis[1],
         module_model |-> CreateModelInstance(st.vis[1].model_builder),
         log |-> st.log, visitors |-> st.vis, own |-> st.own]

\* A parse() that marks the module as processed before it parses the text.
registry_marked_before_parse(processed_nodes, parser) ==
    HasBeenProcessedUpdate(processed_nodes, parser.file_path, parser.module_id)

\* PythonParser.parse up to the raise of libcst.parse_module
\* (python_parser.py:50-54): the file is read and parsed, no visitor has
\* run and the registry has not been touched.
registry_after_failed_parse(processed_nodes, parser) == processed_nodes

\* The callers construct a parser and parse with it at once (main.py:24-26,
\* visitor_manager/visitor_manager.py:112-114): a parser is constructed when
\* every earlier parser has been used.
NewParser(file_path) ==
    /\ Len(parsers) < MaxParsers
    /\ \A q \in 1..Len(parsers) :
          \/ \E i \in 1..Len(done) : done[i].parser = q
          \/ \E i \in 1..Len(failed) : failed[i].parser = q
    /\ LET r == GetInstanceStep(managers, instance)
       IN  /\ managers' = r.managers
           /\ instance' = r.instance
           /\ parsers' = Append(parsers, PythonParser(file_path, r.instance))
    /\ UNCHANGED <<vmResult, asked, src, done, fn, bld, malformed, failed, cm, extr, ht>>

Parse(p) ==
    /\ p \in 1..Len(parsers)
    /\ Len(done) + Len(failed) < MaxParses
    /\ IF parse_module(parsers[p].file_path) # "ok"
       THEN /\ failed' = Append(failed,
                               [parser |-> p,
                                file_path |-> parsers[p].file_path,
                                raised |-> parse_module(parsers[p].file_path),
                                returned |-> FALSE])
            /\ managers' = [managers EXCEPT
                               ![parsers[p].visitor_manager].processed_nodes =
                                   registry_after_failed_parse(@, parsers[p])]
            /\ UNCHANGED <<parsers, done>>
       ELSE LET m == parsers[p].visitor_manager
                r == ParseResult(parsers[p], managers[m].processed_nodes)
            IN  /\ managers' = [managers EXCEPT ![m].processed_nodes = r.reg]
                /\ parsers' = [parsers EXCEPT
                                 ![p].module_visitor = r.module_visitor]
                /\ done' = Append(done, [parser |-> p,
                                         file_path |-> parsers[p].file_path,
                                         module_model |-> r.module_model,
                                         log |-> r.log,
                                         visitors |-> r.visitors,
                                         own |-> r.own])
                /\ UNCHANGED failed
    /\ UNCHANGED <<instance, vmResult, asked, src, fn, bld, malformed, cm,
                   extr, ht>>

\* The sets of unparsable files a run starts from.
Unparsable == {{}, {"b.py"}}

Init ==
    /\ managers = <<>>
    /\ instance = 0
    /\ vmResult = NoVmResult
    /\ asked = {}
    /\ src \in Trees
    /\ parsers = <<>>
    /\ done = <<>>
    /\ fn = NoResult
    /\ bld = NoResult
    /\ malformed \in Unparsable
    /\ failed = <<>>
    /\ cm = NoResult
    /\ extr = NoResult
    /\ ht = NoResult

Next ==
    \/ \E f \in Files : NewParser(f)
    \/ \E p \in 1..MaxParsers : Parse(p)

Spec == Init /\ [][Next]_vars

-----------------------------------------------------------------------------
(* Deeper nesting, as in sample_file.py:24-43 (a function inside a         *)
(* function inside a function inside a function): one file, every          *)
(* definition with a name of its own.                                      *)

MaxDeepNodes == 5   \* class/function definitions in one deeply nested module

\* The name of the i-th definition of a deeply nested module.
DeepNames == <<"f", "g", "h", "k", "n", "q", "r", "s">>

\* The parent vectors of the preorder layouts of n definitions.
Shapes(n) ==
    { p \in [1..n -> 0..(IF n = 0 THEN 0 ELSE n - 1)] :
        IsPreorder([i \in 1..n |-> [parent |-> p[i]]]) }

DeepTrees ==
    UNION { { [i \in 1..n |-> [kind |-> k[i], name |-> DeepNames[i],
                               parent |-> p[i]]] :
                k \in [1..n -> Kinds], p \in Shapes(n) }
            : n \in 0..MaxDeepNodes }

InitDeep ==
    /\ managers = <<>>
    /\ instance = 0
    /\ vmResult = NoVmResult
    /\ asked = {}
    /\ src \in DeepTrees
    /\ parsers = <<>>
    /\ done = <<>>
    /\ fn = NoResult
    /\ bld = NoResult
    /\ malformed = {}
    /\ failed = <<>>
    /\ cm = NoResult
    /\ extr = NoResult
    /\ ht = NoResult

NextDeep ==
    \/ NewParser("a.py")
    \/ \E p \in 1..MaxParsers : Parse(p)

SpecDeep == InitDeep /\ [][NextDeep]_vars

-----------------------------------------------------------------------------
(* Modules whose blocks hold comments: a comment is a leaf of the tree,    *)
(* inside the definition (or module) whose lines hold it.                  *)

\* The comments of a commented module: one tagged, one not.
BodyComments == {"# TODO: t", "# plain"}

\* What a node of a commented module is: a definition or a comment.
NodeChoices ==
    { [kind |-> k, text |-> None] : k \in Kinds } \cup
    { [kind |-> COMMENT, text |-> t] : t \in BodyComments }

CommentedTrees ==
    UNION { { t \in { [i \in 1..n |->
                         [kind |-> c[i].kind,
                          name |-> IF c[i].kind = COMMENT THEN c[i].text
                                   ELSE DeepNames[i],
                          parent |-> p[i]]] :
                      c \in [1..n -> NodeChoices], p \in Shapes(n) } :
                \A i \in 1..n :
                    t[i].parent # 0 => t[t[i].parent].kind # COMMENT }
            : n \in 0..MaxNodes }

InitCommented ==
    /\ managers = <<>>
    /\ instance = 0
    /\ vmResult = NoVmResult
    /\ asked = {}
    /\ src \in CommentedTrees
    /\ parsers = <<>>
    /\ done = <<>>
    /\ fn = NoResult
    /\ bld = NoResult
    /\ malformed = {}
    /\ failed = <<>>
    /\ cm = NoResult
    /\ extr = NoResult
    /\ ht = NoResult

NextCommented ==
    \/ NewParser("a.py")
    \/ \E p \in 1..MaxParsers : Parse(p)

SpecCommented == InitCommented /\ [][NextCommented]_vars

-----------------------------------------------------------------------------
(* The operations of the VisitorManager, called directly.                  *)

Scopes == {"a.py", "b.py"}

NodeKeys == { ModuleIDGenerationStrategy("a.py"),
              ClassIDGenerationStrategy(ModuleIDGenerationStrategy("a.py"), "A") }


\* VisitorManager(): __init__ raises iff _instance is set; it never sets it.
Construct ==
    /\ Len(managers) < MaxManagers \/ instance # 0
    /\ IF instance # 0
       THEN /\ vmResult' = [op |-> "construct", raised |-> TRUE, mgr |-> 0]
            /\ UNCHANGED managers
       ELSE /\ managers' = Append(managers, NewManager)
            /\ vmResult' = [op |-> "construct", raised |-> FALSE,
                            mgr |-> Len(managers) + 1]
    /\ UNCHANGED <<instance, asked, src, parsers, done, fn, bld, malformed, failed, cm, extr, ht>>

GetInstance ==
    /\ Len(managers) < MaxManagers \/ instance # 0
    /\ LET r == GetInstanceStep(managers, instance)
       IN  /\ managers' = r.managers
           /\ instance' = r.instance
           /\ vmResult' = [op |-> "get_instance", raised |-> FALSE,
                           mgr |-> r.instance]
    /\ UNCHANGED <<asked, src, parsers, done, fn, bld, malformed, failed, cm, extr, ht>>

\* manager.has_been_processed(module_id, node_id) on any manager object.
HasBeenProcessed(m, module_id, node_id) ==
    /\ m \in 1..Len(managers)
    /\ LET reg == managers[m].processed_nodes
       IN  /\ vmResult' = [op |-> "has_been_processed", mgr |-> m,
                           module_id |-> module_id, node_id |-> node_id,
                           ret |-> HasBeenProcessedResult(reg, module_id, node_id),
                           askedBefore |-> <<m, module_id, node_id>> \in asked]
           /\ managers' = [managers EXCEPT ![m].processed_nodes =
                              HasBeenProcessedUpdate(reg, module_id, node_id)]
    /\ asked' = asked \cup {<<m, module_id, node_id>>}
    /\ UNCHANGED <<instance, src, parsers, done, fn, bld, malformed, failed, cm, extr, ht>>

InitVM ==
    /\ managers = <<>>
    /\ instance = 0
    /\ vmResult = NoVmResult
    /\ asked = {}
    /\ src = <<>>
    /\ parsers = <<>>
    /\ done = <<>>
    /\ fn = NoResult
    /\ bld = NoResult
    /\ malformed = {}
    /\ failed = <<>>
    /\ cm = NoResult
    /\ extr = NoResult
    /\ ht = NoResult

NextVM ==
    \/ Construct
    \/ GetInstance
    \/ \E m \in 1..MaxManagers, s \in Scopes, n \in NodeKeys :
          HasBeenProcessed(m, s, n)

SpecVM == InitVM /\ [][NextVM]_vars

-----------------------------------------------------------------------------
(* visitors/node_processing/function_def_functions.py                      *)

\* func_is_method (function_def_functions.py:158-160).
func_is_method(id) == Contains(id, BlockType_CLASS)

\* The id of the block at the end of a chain of nested definitions in file
\* file_path: each id is generated from the parent's id, the kind and the
\* name, as the visitors and the parser do.
RECURSIVE ChainId(_, _)
ChainId(file_path, chain) ==
    IF chain = <<>> THEN get_node_id(BlockType_MODULE, file_path, "")
    ELSE LET last == chain[Len(chain)]
         IN  get_node_id(last.kind,
                         ChainId(file_path, SubSeq(chain, 1, Len(chain) - 1)),
                         last.name)

FnFiles == {"a.py", "CLASSES.py"}

FnNames == {"f", "A", "MY_CLASS"}

\* The chains of at most n enclosing definitions.
RECURSIVE ChainsUpTo(_)
ChainsUpTo(n) ==
    IF n = 0 THEN {<<>>}
    ELSE LET shorter == ChainsUpTo(n - 1)
         IN  shorter \cup
             { Append(c, b) : c \in shorter, b \in [kind : Kinds, name : FnNames] }

\* process_function (function_def_functions.py:23-61) followed by build():
\* is_method comes from func_is_method(context.node_id) and reaches the
\* model through set_is_method (set_function_data_in_builder, line 71).
ProcessFunction(file_path, ancestors, function_name) ==
    LET parent_id == ChainId(file_path, ancestors)
        node_id == get_node_id(BlockType_FUNCTION, parent_id, function_name)
        builder == set_is_method(
                       FunctionModelBuilder(parent_id, function_name, node_id),
                       func_is_method(node_id))
    IN  /\ fn' = [op |-> "process_function", file_path |-> file_path,
                  ancestors |-> ancestors,
                  model |-> CreateModelInstance(builder)]
        /\ UNCHANGED <<managers, instance, vmResult, asked, src, parsers,
                       done, bld, malformed, failed, cm,
                   extr, ht>>

InitFn == InitVM

NextFn ==
    \E f \in FnFiles, a \in ChainsUpTo(MaxDepth), name \in FnNames :
        ProcessFunction(f, a, name)

SpecFn == InitFn /\ [][NextFn]_vars

-----------------------------------------------------------------------------
(* The block builders, used directly.                                      *)

BuilderKinds == {BlockType_MODULE, BlockType_CLASS, BlockType_FUNCTION}

BuilderParentIds == {"", "a.py__>__MODULE", "a.py__>__MODULE__>__CLASS_A"}

BuilderNames == {"", "A", "m", "a.py"}

\* The builder a constructor call yields.
BuilderFor(kind, parent_id, name) ==
    CASE kind = BlockType_MODULE ->
           ModuleModelBuilder(name, get_node_id(kind, name, ""))
      [] kind = BlockType_CLASS ->
           ClassModelBuilder(parent_id, name, get_node_id(kind, parent_id, name))
      [] kind = BlockType_FUNCTION ->
           FunctionModelBuilder(parent_id, name,
                                get_node_id(kind, parent_id, name))

\* XModelBuilder(...): BaseModelBuilder.__init__ constructs the common
\* attributes (and runs check_parent_id), then the specific attributes are
\* constructed (and Field(min_length=1) is checked).
ConstructBuilder(kind, parent_id, name) ==
    LET builder == BuilderFor(kind, parent_id, name)
        outcome == BuildOutcome(builder)
    IN  /\ bld' = IF outcome = "ok"
                  THEN [op |-> "constructed", raised |-> "ok",
                        builder |-> builder]
                  ELSE [op |-> "constructed", raised |-> outcome]
        /\ UNCHANGED <<managers, instance, vmResult, asked, src, parsers,
                       done, fn, malformed, failed, cm,
                   extr, ht>>

\* set_class_name (class_model_builder.py:43-46) and set_function_name
\* (function_model_builder.py:77-80): plain assignment, not validated.
set_name(builder, name) ==
    CASE builder.common_attributes.block_type = BlockType_CLASS ->
           [builder EXCEPT !.class_attributes.class_name = name]
      [] builder.common_attributes.block_type = BlockType_FUNCTION ->
           [builder EXCEPT !.function_attributes.function_name = name]
      [] OTHER -> builder

SetName(name) ==
    /\ bld.op \in {"constructed", "set"}
    /\ bld.raised = "ok"
    /\ bld.builder.common_attributes.block_type # BlockType_MODULE
    /\ bld' = [op |-> "set", raised |-> "ok",
               builder |-> set_name(bld.builder, name)]
    /\ UNCHANGED <<managers, instance, vmResult, asked, src, parsers,
                   done, fn, malformed, failed, cm,
                   extr, ht>>

\* BaseModelBuilder.build (base_model_builder.py:196-208).
Build ==
    /\ bld.op \in {"constructed", "set"}
    /\ bld.raised = "ok"
    /\ LET outcome == BuildOutcome(bld.builder)
       IN  bld' = IF outcome = "ok"
                  THEN [op |-> "built", raised |-> "ok",
                        builder |-> bld.builder,
                        model |-> CreateModelInstance(bld.builder)]
                  ELSE [op |-> "built", raised |-> outcome,
                        builder |-> bld.builder]
    /\ UNCHANGED <<managers, instance, vmResult, asked, src, parsers,
                   done, fn, malformed, failed, cm,
                   extr, ht>>

\* The setters every builder inherits (base_model_builder.py:97-178).
BaseSetters ==
    {"set_block_start_line_number", "set_block_end_line_number",
     "set_code_content", "add_child", "add_important_comment", "add_summary"}

\* The setters of the builder class of a block type
\* (module_model_builder.py:33-60, class_model_builder.py:43-86,
\* function_model_builder.py:77-147).
Setters(block_type) ==
    BaseSetters \cup
    CASE block_type = BlockType_MODULE ->
           {"set_docstring", "set_header_content", "set_footer_content",
            "add_import"}
      [] block_type = BlockType_CLASS ->
           {"set_class_name", "add_decorator", "add_base_class",
            "set_class_type", "set_docstring", "add_attribute", "add_keyword"}
      [] block_type = BlockType_FUNCTION ->
           {"set_function_name", "set_decorator_list", "set_docstring",
            "add_parameters_list", "set_return_annotation", "set_is_method",
            "set_method_type", "set_is_async"}

\* What the setter returns: every setter ends in `return self` except
\* FunctionModelBuilder.set_method_type, whose body is `...`
\* (function_model_builder.py:136-137) and which so returns None.
SetterReturn(block_type, setter) ==
    IF block_type = BlockType_FUNCTION /\ setter = "set_method_type"
    THEN None
    ELSE "self"

\* builder.<setter>(value): the value returned; the attributes the setters
\* store that are not part of the model's records are left out.
CallSetter(setter) ==
    /\ bld.op \in {"constructed", "set", "setter"}
    /\ bld.raised = "ok"
    /\ setter \in Setters(bld.builder.common_attributes.block_type)
    /\ bld' = [op |-> "setter", raised |-> "ok", builder |-> bld.builder,
               setter |-> setter,
               returned |-> SetterReturn(
                   bld.builder.common_attributes.block_type, setter)]
    /\ UNCHANGED <<managers, instance, vmResult, asked, src, parsers,
                   done, fn, malformed, failed, cm,
                   extr, ht>>

InitBuilder == InitVM

NextBuilder ==
    \/ \E k \in BuilderKinds, p \in BuilderParentIds, n \in BuilderNames :
          ConstructBuilder(k, p, n)
    \/ \E n \in BuilderNames : SetName(n)
    \/ Build
    \/ \E k \in BuilderKinds : \E setter \in Setters(k) : CallSetter(setter)

SpecBuilder == InitBuilder /\ [][NextBuilder]_vars

-----------------------------------------------------------------------------
(* VisitorManager.get_node_id, called directly.                            *)

MaxIds == 2    \* ids generated in one run

\* File paths and parent ids, among them strings that hold the separator
\* and the kind tags.
IdParents ==
    {"a.py", "a.py__>__MODULE", "a.py__>__MODULE__>__CLASS_A", "CLASS_A",
     "A__>__FUNCTION_f"}

\* Names of classes and functions (node.name.value, a Python identifier),
\* among them names that read like the kind tags.
IdNames == {"A", "f", "MODULE", "CLASS_A", "FUNCTION_f"}

\* visitor_manager.get_node_id(node_type, context) with context
\* {"file_path": ...} or {"parent_id": ..., "<kind>_name": ...}.
GetNodeId(node_type, parent_or_path, name) ==
    LET generated == IF vmResult.op = "get_node_id" THEN vmResult.generated
                     ELSE {}
        call == [node_type |-> node_type, parent_or_path |-> parent_or_path,
                 name |-> IF node_type = BlockType_MODULE THEN "" ELSE name,
                 id |-> get_node_id(node_type, parent_or_path, name)]
    IN  /\ Cardinality(generated) < MaxIds
        /\ call \notin generated
        /\ vmResult' = [op |-> "get_node_id", ret |-> call.id,
                        generated |-> generated \cup {call}]
        /\ UNCHANGED <<managers, instance, asked, src, parsers, done, fn, bld,
                       malformed, failed, cm,
                   extr, ht>>

InitId == InitVM

NextId ==
    \E k \in BuilderKinds, p \in IdParents, n \in IdNames : GetNodeId(k, p, n)

SpecId == InitId /\ [][NextId]_vars

-----------------------------------------------------------------------------
(* process_comment, called directly on a builder.                          *)

MaxComments == 2    \* process_comment calls on one builder

CommentTexts ==
    {"# TODO: a", "# plain text", "# FIXME later", "# TODO-FIXME b",
     "# see NOTE and TODO", "#"}

CommentNodes ==
    { Comment(t) : t \in CommentTexts } \cup
    { EmptyLine(t) : t \in {None, "# TODO: a", "# plain text"} } \cup
    { [type |-> "Newline"] }

\* A visitor constructs its builder (base_code_block_visitor.py:47-73).
ConstructTarget(kind) ==
    /\ cm.op = "none"
    /\ cm' = [op |-> "constructed",
              builder |-> BuilderFor(kind, "a.py__>__MODULE",
                                     IF kind = BlockType_MODULE THEN "a.py"
                                     ELSE "A"),
              calls |-> 0]
    /\ UNCHANGED <<managers, instance, vmResult, asked, src, parsers, done,
                   fn, bld, malformed, failed,
                   extr, ht>>

\* visit_Comment: process_comment(node, self.model_builder).
ProcessComment(node) ==
    /\ cm.op # "none"
    /\ cm.calls < MaxComments
    /\ cm' = [op |-> "process_comment", node |-> node,
              before |-> cm.builder,
              builder |-> process_comment(node, cm.builder),
              calls |-> cm.calls + 1]
    /\ UNCHANGED <<managers, instance, vmResult, asked, src, parsers, done,
                   fn, bld, malformed, failed,
                   extr, ht>>

InitComment == InitVM

NextComment ==
    \/ \E k \in BuilderKinds : ConstructTarget(k)
    \/ \E n \in CommentNodes : ProcessComment(n)

SpecComment == InitComment /\ [][NextComment]_vars



-----------------------------------------------------------------------------
(* Claims about the VisitorManager (checked under SpecVM).                 *)

\* C1: the first has_been_processed call for a (scope, node) pair on a manager
\* returns False and records the pair; every later call with the same pair
\* returns True, whatever calls for other pairs happened in between.
C1_FirstFalseThenTrue ==
    /\ vmResult.op = "has_been_processed" =>
          vmResult.ret = vmResult.askedBefore
    /\ \A t \in asked :
          /\ t[2] \in DOMAIN managers[t[1]].processed_nodes
          /\ t[3] \in managers[t[1]].processed_nodes[t[2]]

\* A pair asked again, after a call for another pair, answered True.
C1_Witness ==
    /\ vmResult.op = "has_been_processed"
    /\ vmResult.ret = TRUE
    /\ \E t \in asked : t[1] = vmResult.mgr /\
          <<t[2], t[3]>> # <<vmResult.module_id, vmResult.node_id>>

\* C8: an attempt to construct a second VisitorManager raises instead of
\* yielding a second manager object, for every order of constructor and
\* get_instance() calls: at most one manager object ever exists.
C8_AtMostOneManager == Len(managers) <= 1

-----------------------------------------------------------------------------
(* Claims about the traversal (checked under Spec).                        *)

\* The id the identity scheme gives definition n (0: the module) of the
\* source in file file_path.
RECURSIVE NodeId(_, _)
NodeId(file_path, n) ==
    IF n = 0 THEN get_node_id(BlockType_MODULE, file_path, "")
    ELSE get_node_id(src[n].kind, NodeId(file_path, src[n].parent), src[n].name)

\* Every model of a finalized hierarchy.
RECURSIVE ModelsIn(_)
ModelsIn(model) ==
    {model} \cup UNION { ModelsIn(model.children[k]) :
                            k \in 1..Len(model.children) }

ChildIds(model) == [k \in 1..Len(model.children) |-> model.children[k].id]

\* done[i] is the first parse of its file path in the process.
FirstParseOfPath(i) ==
    \A j \in 1..(i - 1) : done[j].file_path # done[i].file_path

\* C2: idempotence law: traversing the same tree twice with one
\* VisitorManager yields a module model with as many children as
\* traversing it once.
C2_SameChildCount ==
    \A i, j \in 1..Len(done) :
        (i < j /\ done[i].file_path = done[j].file_path) =>
            Len(done[j].module_model.children) =
                Len(done[i].module_model.children)

\* C3: for every class definition C directly in the body of a module, class
\* or function P, the finalized model of P has exactly one child whose id is
\* the identity derived from (P.id, CLASS, C.name).
C3_ExactlyOneClassChild ==
    \A i \in 1..Len(done) : FirstParseOfPath(i) =>
        \A c \in 1..Len(src) : src[c].kind = BlockType_CLASS =>
            \A P \in ModelsIn(done[i].module_model) :
                P.id = NodeId(done[i].file_path, src[c].parent) =>
                    Cardinality({ k \in 1..Len(P.children) :
                        P.children[k].id =
                            get_node_id(BlockType_CLASS, P.id, src[c].name) }) = 1

\* C4: the children of a finalized block are its directly nested class and
\* function definitions, one model each, in source order.
C4_ChildrenAreBodyInOrder ==
    \A i \in 1..Len(done) : FirstParseOfPath(i) =>
        \A n \in 0..Len(src) :
            \A P \in ModelsIn(done[i].module_model) :
                P.id = NodeId(done[i].file_path, n) =>
                    ChildIds(P) =
                        [k \in 1..Len(Body(n)) |->
                            NodeId(done[i].file_path, Body(n)[k])]

\* The name of the definition a class or function model stands for.
ModelName(model) ==
    IF model.block_type = BlockType_CLASS THEN model.class_name
    ELSE model.function_name

\* The places <<parent id, position>> of a finalized hierarchy that hold a
\* model of definition n.
PlacesOf(module_model, n) ==
    UNION { { <<P.id, k>> : k \in { j \in 1..Len(P.children) :
                               /\ P.children[j].block_type = src[n].kind
                               /\ ModelName(P.children[j]) = src[n].name } }
            : P \in ModelsIn(module_model) }

\* C17: every class and function definition of the source is materialized
\* as exactly one model, placed in the children of the model of its
\* directly enclosing block: at any nesting depth no definition is missing,
\* under two parents or under a block that is not its direct parent.
C17_OneModelUnderDirectParent ==
    \A i \in 1..Len(done) : FirstParseOfPath(i) =>
        \A n \in 1..Len(src) :
            /\ Cardinality(PlacesOf(done[i].module_model, n)) = 1
            /\ \A pl \in PlacesOf(done[i].module_model, n) :
                  pl[1] = NodeId(done[i].file_path, src[n].parent)

\* Every model of done[i]'s hierarchy that a class or function visitor built
\* holds the important comments the visitor's builder collected during the
\* traversal.
CollectedCommentsInModel(i) ==
    \A v \in 2..Len(done[i].visitors) :
        \A P \in ModelsIn(done[i].module_model) :
            P.id = done[i].visitors[v].model_id =>
                P.important_comments =
                    done[i].visitors[v].model_builder.common_attributes.important_comments

\* C18: a class or function visitor calls build() when leave is signalled
\* for its own block node, so that everything collected in the block's
\* body, the important comments after a nested definition included, is in
\* the finalized model.
C18_BuiltAtOwnLeave ==
    \A i \in 1..Len(done) :
        /\ \A k \in 1..Len(done[i].log) :
              done[i].log[k].ev = "build" =>
                  done[i].log[k].at = done[i].log[k].own
        /\ CollectedCommentsInModel(i)

\* C19: finalization is bottom-up: a parent's model is built only after
\* every model nested in it has been built and collected in the parent
\* visitor's children list, so no child is handed to a visitor whose own
\* model is already built.
C19_ChildrenCollectedBeforeParentBuilt ==
    \A i \in 1..Len(done) :
        \A j, k \in 1..Len(done[i].log) :
            (/\ done[i].log[j].ev = "build"
             /\ done[i].log[k].ev = "add_child_to_parent_visitor"
             /\ done[i].log[k].parent = done[i].log[j].id) => k < j

\* C20: however many leave callbacks fire on a class or function visitor,
\* its model is built and appended to its parent visitor's children list at
\* most once: no id is built or appended twice in a traversal, and no
\* visitor's children list holds two models with the same id.
C20_AppendedAtMostOnce ==
    \A i \in 1..Len(done) :
        /\ \A j, k \in 1..Len(done[i].log) :
              (/\ done[i].log[j].ev \in {"build", "add_child_to_parent_visitor"}
               /\ done[i].log[k].ev = done[i].log[j].ev
               /\ done[i].log[k].id = done[i].log[j].id) => j = k
        /\ \A v \in 1..Len(done[i].visitors) :
              \A a, b \in 1..Len(done[i].visitors[v].children) :
                  done[i].visitors[v].children[a].id =
                      done[i].visitors[v].children[b].id => a = b

\* A visitor was built at the leave of a nested node, so that the leave of
\* its own node reached it when its model was already with its parent.
C20_Witness ==
    \E i \in 1..Len(done) :
        \E k \in 1..Len(done[i].log) :
            /\ done[i].log[k].ev = "build"
            /\ done[i].log[k].at # done[i].log[k].own
            /\ \E v \in 1..Len(done[i].visitors) :
                  \E a \in 1..Len(done[i].visitors[v].children) :
                      done[i].visitors[v].children[a].id = done[i].log[k].id

\* The comment nodes directly in the body of block n (0: the module) that
\* carry a tag of the vocabulary.
OwnImportantComments(n) ==
    { c \in 1..Len(src) :
        /\ src[c].kind = COMMENT
        /\ src[c].parent = n
        /\ get_important_comment(Comment(src[c].name)) # <<>> }

\* C21: a block's important_comments hold only the important comments
\* owned directly by that block: a comment inside a nested class or
\* function is not recorded with the enclosing class, function or module.
C21_OnlyOwnComments ==
    \A i \in 1..Len(done) :
        \A n \in 0..Len(src) :
            \A P \in ModelsIn(done[i].module_model) :
                (n = 0 \/ src[n].kind # COMMENT) /\ P.id = NodeId(done[i].file_path, n) =>
                    Len(P.important_comments) <=
                        Cardinality(OwnImportantComments(n))

\* C6: after a module's traversal completes its processed-set is cleared: a
\* later parse of the same path starts with no node of the module marked as
\* processed and yields a model with the same children as the first parse.
C6_ProcessedSetCleared ==
    /\ \A i \in 1..Len(done) :
          \A m \in 1..Len(managers) :
              done[i].file_path \in DOMAIN managers[m].processed_nodes =>
                  managers[m].processed_nodes[done[i].file_path] = {}
    /\ \A i, j \in 1..Len(done) :
          (i < j /\ done[i].file_path = done[j].file_path) =>
              done[j].module_model.children = done[i].module_model.children

\* The registry with every scope but file_path's removed.
ScopeOnly(processed_nodes, file_path) ==
    [k \in DOMAIN processed_nodes \cap {file_path} |-> processed_nodes[k]]

\* C7: what was recorded while traversing one module never makes a block of
\* another module (another file path) count as processed: every parse
\* answers each has_been_processed call, and builds the model, as it would
\* with the other paths' records removed, and leaves those records alone.
C7_NoLeakAcrossFiles ==
    [][\A p \in 1..Len(parsers) :
         (Len(done') = Len(done) + 1 /\ done'[Len(done')].parser = p) =>
            LET m == parsers[p].visitor_manager
                f == parsers[p].file_path
                reg == managers[m].processed_nodes
                r == ParseResult(parsers[p], ScopeOnly(reg, f))
            IN  /\ done'[Len(done')].module_model = r.module_model
                /\ done'[Len(done')].log = r.log
                /\ \A k \in DOMAIN reg \ {f} :
                      managers'[m].processed_nodes[k] = reg[k]]_vars

\* Two files with the same definitions parsed one after the other, the
\* second one with a model that has children.
C7_Witness ==
    \E i, j \in 1..Len(done) :
        /\ i < j
        /\ done[i].file_path # done[j].file_path
        /\ Len(done[i].module_model.children) > 0
        /\ Len(done[j].module_model.children) > 0

C11_OwnPosition ==
    \A i \in 1..Len(done) : FirstParseOfPath(i) =>
        \A n \in 1..Len(src) :
            (\A k \in 1..(n - 1) :
                NodeId(done[i].file_path, k) # NodeId(done[i].file_path, n)) =>
            \A P \in ModelsIn(done[i].module_model) :
                P.id = NodeId(done[i].file_path, n) =>
                    /\ P.block_start_line_number = CodeRange(n).start
                    /\ P.block_end_line_number = CodeRange(n).end

-----------------------------------------------------------------------------
(* Claim about is_method (checked under SpecFn).                           *)

-----------------------------------------------------------------------------
(* Claim about the builders (checked under SpecBuilder).                   *)

\* C9: constructing or building a non-module block with an empty parent_id
\* fails with a validation error: no builder or model of a class or function
\* with an empty parent_id comes to exist.
C9_NonModuleHasParentId ==
    (bld.op # "none" /\ bld.raised = "ok" /\
     bld.builder.common_attributes.block_type # BlockType_MODULE) =>
        bld.builder.common_attributes.parent_id # ""

\* C16: every setter of every block builder (module, class, function) is
\* chainable: it returns the builder it was called on.
C16_SettersReturnSelf ==
    bld.op = "setter" => bld.returned = "self"

-----------------------------------------------------------------------------
(* Claim about comments (checked under SpecComment).                       *)

\* C14: a comment whose text contains the substring "TODO" is captured in
\* important_comments with tag TODO; a comment that contains no tag of the
\* vocabulary adds no important_comments entry and raises no error.
C14_TodoCaptured ==
    (cm.op = "process_comment" /\ CommentTextOf(cm.node) # <<>>) =>
        LET text == CommentTextOf(cm.node)[1]
            was == cm.before.common_attributes.important_comments
            now == cm.builder.common_attributes.important_comments
        IN  /\ Contains(text, "TODO") =>
                   now = Append(was, [content |-> text, comment_type |-> "TODO"])
            /\ (\A k \in 1..Len(CommentType) : ~Contains(text, CommentType[k]))
                   => now = was

\* An untagged comment and then a comment holding TODO next to another tag
\* were processed on one builder.
C14_Witness ==
    /\ cm.op = "process_comment"
    /\ cm.calls = 2
    /\ cm.node = Comment("# TODO-FIXME b")
    /\ Len(cm.before.common_attributes.important_comments) = 0
    /\ Len(cm.builder.common_attributes.important_comments) = 1

-----------------------------------------------------------------------------
(* Claim about the identity scheme (checked under SpecId).                 *)

\* The kind tag an id ends with: the text after the last separator is
\* MODULE, or starts with CLASS_ or FUNCTION_.
KindOfId(id) ==
    LET tail == ShortName(id)
    IN  IF tail = "MODULE" THEN BlockType_MODULE
        ELSE IF Len(tail) >= 6 /\ SubSeq(tail, 1, 6) = "CLASS_"
             THEN BlockType_CLASS
        ELSE IF Len(tail) >= 9 /\ SubSeq(tail, 1, 9) = "FUNCTION_"
             THEN BlockType_FUNCTION
        ELSE "UNKNOWN"

\* C15: the ids of the three kinds have disjoint tagged formats: a module
\* id, a class id and a function id are pairwise different, distinct
\* (parent_id, kind, name) triples give distinct ids, and the kind of the
\* block can be read off the id alone.
C15_TaggedIdsDisjoint ==
    vmResult.op = "get_node_id" =>
        \A a, b \in vmResult.generated :
            /\ a.node_type # b.node_type => a.id # b.id
            /\ a # b => a.id # b.id
            /\ KindOfId(a.id) = a.node_type

\* A class and a function of one name under one parent were given ids.
C15_Witness ==
    /\ vmResult.op = "get_node_id"
    /\ \E a, b \in vmResult.generated :
          /\ a.node_type = BlockType_CLASS
          /\ b.node_type = BlockType_FUNCTION
          /\ a.parent_or_path = b.parent_or_path
          /\ a.name = b.name

-----------------------------------------------------------------------------
(* visitors/node_processing/standalone_code_block_functions.py             *)

MaxStatements == 4   \* statements in one body handed to gather_standalone_lines

\* The statements of a body: a class or function definition, a compound
\* statement (If), or a SimpleStatementLine with its small statements.
Statements ==
    { [type |-> t, body |-> <<>>] : t \in {"ClassDef", "FunctionDef", "If"} } \cup
    { [type |-> "SimpleStatementLine", body |-> b] :
        b \in { <<"Import">>, <<"ImportFrom">>, <<"Assign">>,
                <<"Assign", "Import">> } }

Bodies == UNION { [1..n -> Statements] : n \in 0..MaxStatements }

\* The lines a statement takes: definitions and compound statements have a
\* header line and a body line.
StatementLines(statement) ==
    IF statement.type = "SimpleStatementLine" THEN 1 ELSE 2

RECURSIVE LinesBefore(_, _)
LinesBefore(node_body, k) ==
    IF k <= 1 THEN 0
    ELSE LinesBefore(node_body, k - 1) + StatementLines(node_body[k - 1])

\* visitor_instance.get_node_position_data(statement) as called at
\* standalone_code_block_functions.py:33-35, 43 and 47: the first and last
\* line of the k-th statement of the body.
get_statement_position_data(node_body, k) ==
    [start |-> LinesBefore(node_body, k) + 1,
     end |-> LinesBefore(node_body, k) + StatementLines(node_body[k])]

\* _is_class_or_function_def (lines 55-56).
is_class_or_function_def(statement) ==
    statement.type \in {"ClassDef", "FunctionDef"}

\* An import test that recognises no statement.
is_import_statement_never(statement) == FALSE

\* _is_import_statement (lines 59-62).
is_import_statement(statement) ==
    /\ statement.type = "SimpleStatementLine"
    /\ \E e \in 1..Len(statement.body) :
          statement.body[e] \in {"Import", "ImportFrom"}

\* NodeAndPositionData (utilities/processing_context.py:12-16); a node is
\* named by its index in the body.
NodeAndPositionData(nodes, start, end) ==
    [nodes |-> nodes, start |-> start, end |-> end]

\* The loop of gather_standalone_lines (lines 30-44) from statement k on,
\* then the flush after the loop (lines 46-50).
RECURSIVE GatherFrom(_, _, _, _, _)
GatherFrom(node_body, k, standalone_blocks, standalone_block, start_line) ==
    IF k > Len(node_body)
    THEN IF standalone_block # <<>>
         THEN Append(standalone_blocks,
                     NodeAndPositionData(
                         standalone_block, start_line,
                         get_statement_position_data(
                             node_body,
                             standalone_block[Len(standalone_block)]).end))
         ELSE standalone_blocks
    ELSE IF \/ is_class_or_function_def(node_body[k])
            \/ is_import_statement(node_body[k])
         THEN IF standalone_block # <<>>
              THEN GatherFrom(
                       node_body, k + 1,
                       Append(standalone_blocks,
                              NodeAndPositionData(
                                  standalone_block, start_line,
                                  get_statement_position_data(
                                      node_body,
                                      standalone_block[Len(standalone_block)]).end)),
                       <<>>, 0)
              ELSE GatherFrom(node_body, k + 1, standalone_blocks,
                              standalone_block, start_line)
         ELSE GatherFrom(
                  node_body, k + 1, standalone_blocks,
                  Append(standalone_block, k),
                  IF standalone_block = <<>>
                  THEN get_statement_position_data(node_body, k).start
                  ELSE start_line)

\* gather_standalone_lines (lines 23-52).
gather_standalone_lines(node_body) ==
    GatherFrom(node_body, 1, <<>>, <<>>, 0)

InitGather ==
    /\ managers = <<>>
    /\ instance = 0
    /\ vmResult = NoVmResult
    /\ asked = {}
    /\ src = <<>>
    /\ parsers = <<>>
    /\ done = <<>>
    /\ fn = NoResult
    /\ bld = NoResult
    /\ malformed = {}
    /\ failed = <<>>
    /\ cm = NoResult
    /\ extr \in { [op |-> "body", node_body |-> b] : b \in Bodies }
    /\ ht = NoResult

GatherStandaloneLines ==
    /\ extr.op = "body"
    /\ extr' = [op |-> "gather_standalone_lines", node_body |-> extr.node_body,
                ret |-> gather_standalone_lines(extr.node_body)]
    /\ UNCHANGED <<managers, instance, vmResult, asked, src, parsers, done,
                   fn, bld, malformed, failed, cm, ht>>

NextGather == GatherStandaloneLines

SpecGather == InitGather /\ [][NextGather]_vars

\* Statement k of the body is neither a class/function definition nor an
\* import statement.
InRun(node_body, k) ==
    /\ node_body[k].type \notin {"ClassDef", "FunctionDef"}
    /\ ~(\E e \in 1..Len(node_body[k].body) :
            node_body[k].body[e] \in {"Import", "ImportFrom"})

\* C22: gather_standalone_lines partitions the body's statements other than
\* class/function definitions and imports into maximal contiguous runs:
\* each such statement is in exactly one run, runs are in source order and
\* non-empty, a run ends exactly at a definition, an import or the end of
\* the body, and a run's lines are the first line of its first statement
\* and the last line of its last statement.
C22_MaximalRuns ==
    extr.op = "gather_standalone_lines" =>
        LET b == extr.node_body
            runs == extr.ret
        IN  /\ \A r \in 1..Len(runs) :
                  LET ns == runs[r].nodes
                  IN  /\ ns # <<>>
                      /\ \A x \in 1..Len(ns) :
                            /\ ns[x] \in 1..Len(b)
                            /\ InRun(b, ns[x])
                            /\ x > 1 => ns[x] = ns[x - 1] + 1
                      /\ ns[1] > 1 => ~InRun(b, ns[1] - 1)
                      /\ ns[Len(ns)] < Len(b) => ~InRun(b, ns[Len(ns)] + 1)
                      /\ runs[r].start = LinesBefore(b, ns[1]) + 1
                      /\ runs[r].end = LinesBefore(b, ns[Len(ns)] + 1)
                      /\ r > 1 => runs[r - 1].nodes[Len(runs[r - 1].nodes)] < ns[1]
            /\ \A k \in 1..Len(b) : InRun(b, k) =>
                  Cardinality({ r \in 1..Len(runs) :
                      \E x \in 1..Len(runs[r].nodes) : runs[r].nodes[x] = k }) = 1

\* A body was gathered into two runs, one of them of several statements.
C22_Witness ==
    /\ extr.op = "gather_standalone_lines"
    /\ Len(extr.ret) = 2
    /\ \E r \in 1..2 : Len(extr.ret[r].nodes) >= 2

-----------------------------------------------------------------------------
(* The extractors: decorators (base_code_block_visitor.py:114-158,         *)
(* common_functions.py:161-215), parameters and annotations               *)
(* (function_def_visitor.py:157-225).                                      *)

MaxDecorators == 2   \* decorators on one definition

\* libcst expression nodes.  Name, SimpleString and Integer have a string
\* attribute `value`; Attribute has an attribute `value` that is a node;
\* Call and List have no attribute `value`.
Name(value) == [type |-> "Name", value |-> value]
SimpleString(value) == [type |-> "SimpleString", value |-> value]
Integer(value) == [type |-> "Integer", value |-> value]
Attribute(value, attr) == [type |-> "Attribute", value |-> value, attr |-> attr]
Call(func, args) == [type |-> "Call", func |-> func, args |-> args]
List == [type |-> "List"]

\* libcst.Arg: the value and the keyword (None for a positional argument).
Arg(value, keyword) == [value |-> value, keyword |-> keyword]

\* The values an argument or a parameter default can be.
ArgValues ==
    {Name("x"), SimpleString("'s'"), Integer("1"),
     Attribute(Name("logging"), "DEBUG"), Call(Name("g"), <<>>), List}

\* The argument lists of a decorator call: none, one plain value, two
\* plain values, a keyword argument with a dotted value, a call, a list.
ArgLists ==
    {<<>>,
     <<Arg(Name("x"), None)>>,
     <<Arg(SimpleString("'s'"), None), Arg(Integer("1"), None)>>,
     <<Arg(Attribute(Name("logging"), "DEBUG"), "level")>>,
     <<Arg(Call(Name("g"), <<>>), None)>>,
     <<Arg(Name("x"), None), Arg(List, None)>>}

\* The expressions after the @ of a decorator.
DecoratorExpressions ==
    {Name("property"), Attribute(Name("x"), "setter")} \cup
    { Call(f, a) : f \in {Name("dec"), Attribute(Name("app"), "route")},
                   a \in ArgLists }

Decorator(decorator) == [decorator |-> decorator]

DecoratorSequences ==
    UNION { [1..n -> { Decorator(e) : e \in DecoratorExpressions }] :
              n \in 0..MaxDecorators }

\* What a call that can raise yields: the exception, or the value returned.
Raised(exception) == [raised |-> exception]
Returned(value) == [raised |-> None, ret |-> value]

\* str() of a libcst node: the dataclass repr of the node, not its source.
Repr(node) == node.type \o "(value='" \o node.value \o "')"

\* get_value_from_arg (base_code_block_visitor.py:131-132,
\* common_functions.py:187-188): str(arg.value.value).
get_value_from_arg(arg) ==
    CASE arg.value.type \in {"Name", "SimpleString", "Integer"} ->
           Returned(arg.value.value)
      [] arg.value.type = "Attribute" -> Returned(Repr(arg.value.value))
      [] OTHER -> Raised("AttributeError")

\* extract_arguments_from_decorator: [get_value_from_arg(arg) for arg in
\* call.args].
RECURSIVE extract_arguments_from_decorator(_)
extract_arguments_from_decorator(args) ==
    IF args = <<>> THEN Returned(<<>>)
    ELSE LET first == get_value_from_arg(Head(args))
         IN  IF first.raised # None THEN first
             ELSE LET rest == extract_arguments_from_decorator(Tail(args))
                  IN  IF rest.raised # None THEN rest
                      ELSE Returned(<<first.ret>> \o rest.ret)

\* extract_function_name_from_decorator: the name of a call to a plain
\* name, else None.
extract_function_name_from_decorator(decorator) ==
    IF decorator.decorator.type = "Call" /\ decorator.decorator.func.type = "Name"
    THEN decorator.decorator.func.value
    ELSE None

\* DecoratorModel(decorator_name, decorator_args) (models.py:35-39).
DecoratorModel(decorator_name, decorator_args) ==
    [decorator_name |-> decorator_name, decorator_args |-> decorator_args]

\* The body of the loop of extract_decorators for one decorator: the
\* models it appends to decorator_list (process_decorator for a call,
\* handle_non_call_decorators otherwise).
DecoratorModelsOf(decorator) ==
    IF decorator.decorator.type = "Call"
    THEN IF extract_function_name_from_decorator(decorator) # None
         THEN LET args == extract_arguments_from_decorator(decorator.decorator.args)
              IN  IF args.raised # None THEN args
                  ELSE Returned(<<DecoratorModel(
                           extract_function_name_from_decorator(decorator),
                           args.ret)>>)
         ELSE Returned(<<>>)
    ELSE IF decorator.decorator.type = "Name"
         THEN Returned(<<DecoratorModel(decorator.decorator.value, None)>>)
         ELSE Returned(<<>>)

\* extract_decorators (base_code_block_visitor.py:114-158 and
\* common_functions.py:161-215, the same code).
RECURSIVE extract_decorators(_)
extract_decorators(decorators) ==
    IF decorators = <<>> THEN Returned(<<>>)
    ELSE LET first == DecoratorModelsOf(Head(decorators))
         IN  IF first.raised # None THEN first
             ELSE LET rest == extract_decorators(Tail(decorators))
                  IN  IF rest.raised # None THEN rest
                      ELSE Returned(first.ret \o rest.ret)

\* libcst.Param with its default (None when there is none).
Param(name, default) == [name |-> name, default |-> default]

Params == { Param("p", d) : d \in ArgValues } \cup {[name |-> "p"]}

\* FunctionDefVisitor.extract_default (function_def_visitor.py:224-226):
\* parameter.default.value if parameter.default else None.
extract_default(parameter) ==
    IF "default" \notin DOMAIN parameter THEN Returned(None)
    ELSE CASE parameter.default.type \in {"Name", "SimpleString", "Integer"} ->
                Returned(parameter.default.value)
           [] parameter.default.type = "Attribute" ->
                Returned(Repr(parameter.default.value))
           [] OTHER -> Raised("AttributeError")

MaxKeywords == 2   \* arguments in node.keywords of one class header

\* The arguments libcst puts in ClassDef.keywords: every argument from the
\* first keyword argument on, `**kw` (no keyword) included.
KeywordArgs ==
    { Arg(v, k) : v \in {Name("M"), Integer("1"), Call(Name("g"), <<>>)},
                  k \in {None, "metaclass", "k"} }

KeywordSequences == UNION { [1..n -> KeywordArgs] : n \in 0..MaxKeywords }

\* ClassKeywordModel(**kwargs) (models.py:42-46): keyword_name and
\* arg_value are required fields; other keyword arguments are ignored.
ClassKeywordModel(kwargs) ==
    IF {"keyword_name", "arg_value"} \subseteq DOMAIN kwargs
    THEN Returned([keyword_name |-> kwargs.keyword_name,
                   arg_value |-> kwargs.arg_value])
    ELSE Raised("ValidationError")

\* The text get_and_set_class_keywords renders an argument value to
\* (class_def_visitor.py:233-238); process_arg of class_def_functions.py
\* likewise yields a string for every node.
RenderedValue(value) ==
    IF value.type \in {"Name", "Integer"} THEN value.value
    ELSE value.type \o "(...)"

\* ClassDefVisitor.get_and_set_class_keywords (class_def_visitor.py:223-247)
\* from the k-th argument on; added is what add_keyword has appended.
RECURSIVE get_and_set_class_keywords(_, _)
get_and_set_class_keywords(keywords, added) ==
    IF keywords = <<>> THEN Returned(added)
    ELSE LET keyword_arg == Head(keywords)
             keyword == keyword_arg.keyword
             arg_value == RenderedValue(keyword_arg.value)
         IN  IF keyword # None /\ arg_value # ""
             THEN LET model == ClassKeywordModel([keyword_name |-> keyword,
                                                  arg_value |-> arg_value])
                  IN  IF model.raised # None THEN model
                      ELSE get_and_set_class_keywords(Tail(keywords),
                                                      Append(added, model.ret))
             ELSE Raised("Exception")

\* extract_class_keywords (class_def_functions.py:198-220): the model is
\* constructed with keyword_name and args.
RECURSIVE extract_class_keywords(_, _)
extract_class_keywords(keywords, keywords_list) ==
    IF keywords = <<>> THEN Returned(keywords_list)
    ELSE LET keyword_arg == Head(keywords)
             keyword == keyword_arg.keyword
             arg_values == <<RenderedValue(keyword_arg.value)>>
         IN  IF keyword # None /\ arg_values # <<>>
             THEN LET model == ClassKeywordModel([keyword_name |-> keyword,
                                                  args |-> arg_values])
                  IN  IF model.raised # None THEN model
                      ELSE extract_class_keywords(Tail(keywords),
                                                  Append(keywords_list, model.ret))
             ELSE Raised("Exception")

InitExtract ==
    /\ managers = <<>>
    /\ instance = 0
    /\ vmResult = NoVmResult
    /\ asked = {}
    /\ src = <<>>
    /\ parsers = <<>>
    /\ done = <<>>
    /\ fn = NoResult
    /\ bld = NoResult
    /\ malformed = {}
    /\ failed = <<>>
    /\ cm = NoResult
    /\ extr = NoResult
    /\ ht = NoResult

ExtractDecorators(decorators) ==
    /\ extr = NoResult
    /\ extr' = [op |-> "extract_decorators", decorators |-> decorators,
                out |-> extract_decorators(decorators)]
    /\ UNCHANGED <<managers, instance, vmResult, asked, src, parsers, done,
                   fn, bld, malformed, failed, cm, ht>>

ExtractDefault(parameter) ==
    /\ extr = NoResult
    /\ extr' = [op |-> "extract_default", parameter |-> parameter,
                out |-> extract_default(parameter)]
    /\ UNCHANGED <<managers, instance, vmResult, asked, src, parsers, done,
                   fn, bld, malformed, failed, cm, ht>>

GetAndSetClassKeywords(keywords) ==
    /\ extr = NoResult
    /\ extr' = [op |-> "get_and_set_class_keywords", keywords |-> keywords,
                out |-> get_and_set_class_keywords(keywords, <<>>)]
    /\ UNCHANGED <<managers, instance, vmResult, asked, src, parsers, done,
                   fn, bld, malformed, failed, cm, ht>>

ExtractClassKeywords(keywords) ==
    /\ extr = NoResult
    /\ extr' = [op |-> "extract_class_keywords", keywords |-> keywords,
                out |-> extract_class_keywords(keywords, <<>>)]
    /\ UNCHANGED <<managers, instance, vmResult, asked, src, parsers, done,
                   fn, bld, malformed, failed, cm, ht>>

NextExtract ==
    \/ \E decorators \in DecoratorSequences : ExtractDecorators(decorators)
    \/ \E parameter \in Params : ExtractDefault(parameter)
    \/ \E keywords \in KeywordSequences : GetAndSetClassKeywords(keywords)
    \/ \E keywords \in KeywordSequences : ExtractClassKeywords(keywords)

SpecExtract == InitExtract /\ [][NextExtract]_vars

\* C23: the best-effort extractors (decorator arguments, parameter
\* defaults) never raise on a node shape they do not recognise: they return
\* a placeholder or leave the value out.
C23_ExtractorsNeverRaise ==
    extr.op \in {"extract_decorators", "extract_default"} =>
        extr.out.raised = None

\* The names a decorator model may carry for a call of func: the name
\* called, or for a dotted callee its last attribute or its dotted text.
CalledNames(func) ==
    IF func.type = "Name" THEN {func.value}
    ELSE {func.attr, func.value.value \o "." \o func.attr}

\* C24: decorator extraction yields one decorator model per decorator, in
\* source order: a bare name gives a model with that name and no
\* arguments, a call gives a model named after the called function or
\* attribute with one rendered entry per call argument.
C24_OneModelPerDecorator ==
    extr.op = "extract_decorators" =>
        /\ extr.out.raised = None
        /\ Len(extr.out.ret) = Len(extr.decorators)
        /\ \A k \in 1..Len(extr.decorators) :
              LET d == extr.decorators[k].decorator
                  m == extr.out.ret[k]
              IN  /\ d.type = "Name" =>
                        m.decorator_name = d.value /\ m.decorator_args = None
                  /\ d.type = "Call" =>
                        /\ m.decorator_name \in CalledNames(d.func)
                        /\ Len(m.decorator_args) = Len(d.args)

\* C25: class keyword extraction records a keyword model for every header
\* argument that has a keyword name and a value, and raises instead of
\* skipping when an argument has no keyword name.
C25_KeywordsRecordedOrRaise ==
    extr.op \in {"get_and_set_class_keywords", "extract_class_keywords"} =>
        IF \A k \in 1..Len(extr.keywords) : extr.keywords[k].keyword # None
        THEN /\ extr.out.raised = None
             /\ Len(extr.out.ret) = Len(extr.keywords)
             /\ \A k \in 1..Len(extr.keywords) :
                   extr.out.ret[k].keyword_name = extr.keywords[k].keyword
        ELSE extr.out.raised # None

-----------------------------------------------------------------------------
(* hierarchy_test.py: the stack-based traversal.  ht holds the builder     *)
(* objects made so far (arena; index 1 is the module builder), the         *)
(* visitor's stack of builder indices, the callbacks libcst has still to   *)
(* make, and as history the nodes entered and not yet left.                *)

\* BaseModelBuilder.__init__ (hierarchy_test.py:31-48) with the subclass's
\* name attribute; node is the definition the builder was made for.
StackBuilder(id, block_type, parent_id, name, node) ==
    [id |-> id, block_type |-> block_type, parent_id |-> parent_id,
     name |-> name, children_builders |-> <<>>, node |-> node]

\* BuilderFactory.create_builder_instance (hierarchy_test.py:341-375).
create_builder_instance(block_type, name, parent_id, file_path, node) ==
    CASE block_type = BlockType_MODULE ->
           StackBuilder(ModuleIDGenerationStrategy(file_path), block_type,
                        None, file_path, node)
      [] block_type = BlockType_CLASS ->
           StackBuilder(ClassIDGenerationStrategy(parent_id, name), block_type,
                        parent_id, name, node)
      [] block_type = BlockType_FUNCTION ->
           StackBuilder(FunctionIDGenerationStrategy(parent_id, name),
                        block_type, parent_id, name, node)

\* The callbacks tree.visit(visitor) makes for the definitions cs and what
\* is nested in them: visit, the body, leave.
RECURSIVE Callbacks(_)
Callbacks(cs) ==
    IF cs = <<>> THEN <<>>
    ELSE <<[ev |-> "visit", node |-> Head(cs)]>> \o Callbacks(Body(Head(cs)))
         \o <<[ev |-> "leave", node |-> Head(cs)]>> \o Callbacks(Tail(cs))

\* A leave callback that leaves the stack as it is.
stack_keep(stack) == stack

\* self.stack.pop() (hierarchy_test.py:410, 423).
stack_pop(stack) == SubSeq(stack, 1, Len(stack) - 1)

\* parent_builder.add_child_builder(builder) (hierarchy_test.py:114-124): child b is
\* appended to the children_builders of builder top.
add_child_builder(builders, top, b) ==
    [builders EXCEPT ![top].children_builders = Append(@, b)]

\* The body shared by visit_ClassDef and visit_FunctionDef
\* (hierarchy_test.py:399-407, 412-420): make the builder with the id of
\* the top of the stack as parent_id, register it with the top, push it.
PushBuilder(h, block_type) ==
    LET node == Head(h.todo).node
        top == h.stack[Len(h.stack)]
        builder == create_builder_instance(block_type, src[node].name,
                                           h.builders[top].id, None, node)
        b == Len(h.builders) + 1
    IN  [h EXCEPT !.builders = Append(add_child_builder(@, top, b), builder),
                  !.stack = Append(@, b),
                  !.todo = Tail(@),
                  !.entered = Append(@, node),
                  !.top_at_creation = Append(@, top)]

\* The body shared by leave_ClassDef and leave_FunctionDef
\* (hierarchy_test.py:409-410, 422-423).
PopBuilder(h) ==
    [h EXCEPT !.stack = stack_pop(@),
              !.todo = Tail(@),
              !.entered = SubSeq(@, 1, Len(@) - 1)]

\* The children attribute left as the constructor set it.
children_left_unset(children, built) == children

\* build_and_set_children (hierarchy_test.py:126-129): the children
\* attribute becomes the list of the built children.
build_and_set_children(children, built) == built

\* The model a builder's build() constructs from its common and specific
\* attributes (hierarchy_test.py:195-200, 258-264, 328-334).
StackModel(builder, children) ==
    [id |-> builder.id, parent_id |-> builder.parent_id,
     block_type |-> builder.block_type, name |-> builder.name,
     children |-> children]

\* build() of builder b and the list comprehension over its
\* children_builders; r carries the models built so far by the
\* comprehension and the log of calls and constructions.
RECURSIVE build(_, _, _), build_children(_, _, _)
build(builders, b, log) ==
    LET r == build_children(builders, builders[b].children_builders,
                            [models |-> <<>>,
                             log |-> Append(log, [ev |-> "build", b |-> b])])
        model == StackModel(builders[b], build_and_set_children(<<>>, r.models))
    IN  [model |-> model,
         log |-> Append(r.log, [ev |-> "model", b |-> b, model |-> model])]

build_children(builders, cs, r) ==
    IF cs = <<>> THEN r
    ELSE LET c == build(builders, Head(cs), r.log)
         IN  build_children(builders, Tail(cs),
                            [models |-> Append(r.models, c.model),
                             log |-> c.log])

InitStack ==
    /\ managers = <<>>
    /\ instance = 0
    /\ vmResult = NoVmResult
    /\ asked = {}
    /\ src \in Trees
    /\ parsers = <<>>
    /\ done = <<>>
    /\ fn = NoResult
    /\ bld = NoResult
    /\ malformed = {}
    /\ failed = <<>>
    /\ cm = NoResult
    /\ extr = NoResult
    /\ ht = NoResult

\* parse_and_print_hierarchy up to tree.visit (hierarchy_test.py:432-440):
\* the module builder, and ModuleVisitor.__init__ (lines 394-397) pushing
\* it.
StartTraversal ==
    /\ ht = NoResult
    /\ ht' = [op |-> "traversal",
              builders |-> <<create_builder_instance(BlockType_MODULE, None,
                                                     None, "a.py", 0)>>,
              stack |-> <<1>>,
              todo |-> Callbacks(Body(0)),
              entered |-> <<>>,
              top_at_creation |-> <<0>>,
              hierarchy |-> None,
              log |-> <<>>]
    /\ UNCHANGED <<managers, instance, vmResult, asked, src, parsers, done,
                   fn, bld, malformed, failed, cm, extr>>

\* ModuleVisitor.visit_ClassDef (hierarchy_test.py:399-407).
visit_ClassDef_stack ==
    /\ ht # NoResult
    /\ ht.op = "traversal"
    /\ ht.todo # <<>>
    /\ Head(ht.todo).ev = "visit"
    /\ src[Head(ht.todo).node].kind = BlockType_CLASS
    /\ ht' = PushBuilder(ht, BlockType_CLASS)
    /\ UNCHANGED <<managers, instance, vmResult, asked, src, parsers, done,
                   fn, bld, malformed, failed, cm, extr>>

\* ModuleVisitor.leave_ClassDef (hierarchy_test.py:409-410).
leave_ClassDef_stack ==
    /\ ht # NoResult
    /\ ht.op = "traversal"
    /\ ht.todo # <<>>
    /\ Head(ht.todo).ev = "leave"
    /\ src[Head(ht.todo).node].kind = BlockType_CLASS
    /\ ht' = PopBuilder(ht)
    /\ UNCHANGED <<managers, instance, vmResult, asked, src, parsers, done,
                   fn, bld, malformed, failed, cm, extr>>

\* ModuleVisitor.visit_FunctionDef (hierarchy_test.py:412-420).
visit_FunctionDef_stack ==
    /\ ht # NoResult
    /\ ht.op = "traversal"
    /\ ht.todo # <<>>
    /\ Head(ht.todo).ev = "visit"
    /\ src[Head(ht.todo).node].kind = BlockType_FUNCTION
    /\ ht' = PushBuilder(ht, BlockType_FUNCTION)
    /\ UNCHANGED <<managers, instance, vmResult, asked, src, parsers, done,
                   fn, bld, malformed, failed, cm, extr>>

\* ModuleVisitor.leave_FunctionDef (hierarchy_test.py:422-423).
leave_FunctionDef_stack ==
    /\ ht # NoResult
    /\ ht.op = "traversal"
    /\ ht.todo # <<>>
    /\ Head(ht.todo).ev = "leave"
    /\ src[Head(ht.todo).node].kind = BlockType_FUNCTION
    /\ ht' = PopBuilder(ht)
    /\ UNCHANGED <<managers, instance, vmResult, asked, src, parsers, done,
                   fn, bld, malformed, failed, cm, extr>>

\* parse_and_print_hierarchy after tree.visit (hierarchy_test.py:441-442):
\* visitor.stack[0].build().
BuildHierarchy ==
    /\ ht # NoResult
    /\ ht.op = "traversal"
    /\ ht.todo = <<>>
    /\ LET r == build(ht.builders, ht.stack[1], <<>>)
       IN  ht' = [ht EXCEPT !.op = "built", !.hierarchy = r.model,
                            !.log = r.log]
    /\ UNCHANGED <<managers, instance, vmResult, asked, src, parsers, done,
                   fn, bld, malformed, failed, cm, extr>>

NextStack ==
    \/ StartTraversal
    \/ visit_ClassDef_stack
    \/ leave_ClassDef_stack
    \/ visit_FunctionDef_stack
    \/ leave_FunctionDef_stack
    \/ BuildHierarchy

SpecStack == InitStack /\ [][NextStack]_vars

\* C26: in the stack-based traversal the builder stack is never empty, has
\* the module builder at index 0 and above it exactly the builders of the
\* definitions entered and not yet left, innermost on top; every new
\* builder has as parent_id the id of the builder that was on top and is
\* registered as that builder's child; after the traversal only the
\* module builder is on the stack.
C26_StackIsOpenDefinitions ==
    ht # NoResult =>
        /\ Len(ht.stack) >= 1
        /\ ht.stack[1] = 1
        /\ ht.builders[1].block_type = BlockType_MODULE
        /\ Len(ht.stack) = Len(ht.entered) + 1
        /\ \A k \in 1..Len(ht.entered) :
              /\ ht.builders[ht.stack[k + 1]].node = ht.entered[k]
              /\ src[ht.entered[k]].parent =
                    (IF k = 1 THEN 0 ELSE ht.entered[k - 1])
        /\ \A b \in 2..Len(ht.builders) :
              LET top == ht.top_at_creation[b]
              IN  /\ ht.builders[b].parent_id = ht.builders[top].id
                  /\ ht.builders[top].node = src[ht.builders[b].node].parent
                  /\ Cardinality({ k \in 1..Len(ht.builders[top].children_builders) :
                        ht.builders[top].children_builders[k] = b }) = 1
        /\ ht.todo = <<>> => ht.stack = <<1>>

\* The traversal is inside a definition nested in a definition nested in a
\* definition.
C26_Witness ==
    /\ ht # NoResult
    /\ ht.op = "traversal"
    /\ Len(ht.stack) = 4
    /\ Len(ht.builders) = 4

\* The positions in the build log of the call of build() on builder b and
\* of the construction of its model.
LogPositions(ev, b) ==
    { i \in 1..Len(ht.log) : ht.log[i].ev = ev /\ ht.log[i].b = b }

\* The model the build log records for builder b.
BuiltModel(b) == ht.log[CHOOSE i \in LogPositions("model", b) : TRUE].model

\* The model's name, kind and children follow the definition n of the
\* source and the definitions directly in it, in source order.
RECURSIVE MirrorsSource(_, _)
MirrorsSource(model, n) ==
    /\ IF n = 0 THEN model.block_type = BlockType_MODULE
       ELSE model.block_type = src[n].kind /\ model.name = src[n].name
    /\ Len(model.children) = Len(Body(n))
    /\ \A k \in 1..Len(Body(n)) : MirrorsSource(model.children[k], Body(n)[k])

\* C27: build() on a builder builds every registered child builder,
\* recursively and in registration order, before it constructs its own
\* model, and the model's children are exactly those built children in
\* that order.
C27_ChildrenBuiltFirstInOrder ==
    (ht # NoResult /\ ht.op = "built") =>
        /\ \A b \in 1..Len(ht.builders) :
              /\ Cardinality(LogPositions("build", b)) = 1
              /\ Cardinality(LogPositions("model", b)) = 1
              /\ LET cs == ht.builders[b].children_builders
                     called(x) == CHOOSE i \in LogPositions("build", x) : TRUE
                     made(x) == CHOOSE i \in LogPositions("model", x) : TRUE
                 IN  /\ \A k \in 1..Len(cs) :
                           /\ called(b) < called(cs[k])
                           /\ made(cs[k]) < made(b)
                           /\ k > 1 => made(cs[k - 1]) < called(cs[k])
                     /\ BuiltModel(b).children =
                           [k \in 1..Len(cs) |-> BuiltModel(cs[k])]
        /\ ht.hierarchy = BuiltModel(1)
        /\ MirrorsSource(ht.hierarchy, 0)

\* A hierarchy was built whose module has two children, the first of which
\* has a child of its own.
C27_Witness ==
    /\ ht # NoResult
    /\ ht.op = "built"
    /\ Len(ht.hierarchy.children) = 2
    /\ Len(ht.hierarchy.children[1].children) = 1

-----------------------------------------------------------------------------
(* Frame of the VisitorManager's operations (checked under SpecVM).        *)

\* The (module, node) pairs a registry records.
RecordedPairs(processed_nodes) ==
    UNION { { <<k, x>> : x \in processed_nodes[k] } :
            k \in DOMAIN processed_nodes }

\* C28: has_been_processed(scope, node) changes the registry only by adding
\* the pair (scope, node); the processed status of every other pair stays
\* as it was, and no operation of the VisitorManager removes a recorded
\* pair from the registry of any manager.
C28_RegistryOnlyGrows ==
    [][/\ Len(managers') >= Len(managers)
       /\ \A m \in 1..Len(managers) :
             LET before == RecordedPairs(managers[m].processed_nodes)
                 after == RecordedPairs(managers'[m].processed_nodes)
             IN  /\ before \subseteq after
                 /\ after \subseteq before \cup
                       (IF /\ vmResult'.op = "has_been_processed"
                           /\ vmResult'.mgr = m
                        THEN {<<vmResult'.module_id, vmResult'.node_id>>}
                        ELSE {})]_vars

\* A call recorded a new pair in a registry that already held a pair of
\* another module and a pair of the same module.
C28_Witness ==
    /\ vmResult.op = "has_been_processed"
    /\ vmResult.ret = FALSE
    /\ LET pairs == RecordedPairs(managers[vmResult.mgr].processed_nodes)
       IN  /\ \E t \in pairs : t[1] # vmResult.module_id
           /\ \E t \in pairs : t[1] = vmResult.module_id /\ t[2] # vmResult.node_id

-----------------------------------------------------------------------------
(* A file that does not parse is corrected on disk and parsed again in the *)
(* same process.                                                           *)

InitRetry ==
    /\ managers = <<>>
    /\ instance = 0
    /\ vmResult = NoVmResult
    /\ asked = {}
    /\ src \in Trees
    /\ parsers = <<>>
    /\ done = <<>>
    /\ fn = NoResult
    /\ bld = NoResult
    /\ malformed = {"a.py"}
    /\ failed = <<>>
    /\ cm = NoResult
    /\ extr = NoResult
    /\ ht = NoResult

\* The text at file_path is replaced by the module src; parse() reads the
\* file anew on every call (python_parser.py:50-51).
CorrectFile(file_path) ==
    /\ file_path \in malformed
    /\ malformed' = malformed \ {file_path}
    /\ UNCHANGED <<managers, instance, vmResult, asked, src, parsers, done,
                   fn, bld, failed, cm, extr, ht>>

NextRetry ==
    \/ NewParser("a.py")
    \/ \E p \in 1..MaxParsers : Parse(p)
    \/ CorrectFile("a.py")

SpecRetry == InitRetry /\ [][NextRetry]_vars

-----------------------------------------------------------------------------
(* Claim about the tag vocabulary (checked under SpecComment).             *)

\* C30: a comment is given the first tag, in declaration order of the
\* vocabulary, whose text occurs in the comment, and every tag of the
\* vocabulary can be given to some comment: a comment that holds tag k and,
\* besides it, only tags that are part of the text of tag k is given tag k
\* (no earlier tag that is a substring of tag k takes it).
C30_FirstTagAndEveryTagAssignable ==
    (cm.op = "process_comment" /\ CommentTextOf(cm.node) # <<>>) =>
        LET text == CommentTextOf(cm.node)[1]
            was == cm.before.common_attributes.important_comments
            now == cm.builder.common_attributes.important_comments
        IN  \A k \in MatchingTypes(text) :
                /\ (\A j \in MatchingTypes(text) : k <= j) =>
                       now = Append(was, [content |-> text,
                                          comment_type |-> CommentType[k]])
                /\ (\A j \in MatchingTypes(text) :
                        Contains(CommentType[k], CommentType[j])) =>
                       now = Append(was, [content |-> text,
                                          comment_type |-> CommentType[k]])

====
